---------------------------- MODULE Spec2Model ----------------------------
(***************************************************************************)
(* X-Ray: trace recording (sdk/step.py), the run's life and its delivery   *)
(* (sdk/run.py, sdk/xray.py) and the store and query layer                 *)
(* (api/storage.py, api/main.py, api/models.py).                           *)
(*                                                                         *)
(* A Python dict is modelled as a function whose DOMAIN is the set of keys *)
(* present, together with a sequence of keys where the insertion order of  *)
(* the dict is read by the code.  An Optional value is None (the empty    *)
(* tuple) or Some(x) (the 1-tuple of x); a float is None or a fraction.   *)
(* Opaque payloads (input, output, details, metadata, timestamps) that no  *)
(* modelled branch reads are left out of the records.                      *)
(***************************************************************************)
EXTENDS Integers, Sequences, FiniteSets, TLC

None == <<>>
Some(x) == <<x>>

\* ---------------------------------------------------------------- constants
\* sdk/step.py, class attributes of Step
MIN_SAMPLES_PER_REASON == 5
MAX_SAMPLES_PER_REASON == 20

CaptureModes == {"full", "sample", "none"}
Reasons == {"low_score", "price_too_high"}

\* ------------------------------------------------------------------- bounds
\* reject calls made on one step under Spec
MaxCalls == 22
\* negative outcomes of random.random() < DEFAULT_SAMPLE_RATE explored per step
MaxSkips == 2
\* operations applied to a step object after its __exit__
MaxLateCalls == 1
\* reject calls made on one step under SpecStep
MaxStepRejects == 2
\* item counts handed to set_input_count / set_output_count
MaxCount == 3
CountValues == (-1 .. MaxCount) \cup {40, 100}
\* what the flow of one run does besides leaving blocks: events recorded
\* (reject, accept, decide, set_input_count), further steps opened and
\* re-entries of the run's block
MaxEffort == 3
\* times the block of one run is left
MaxExits == 2
\* runs' blocks left by the flows of one client
MaxSends == 3
\* sends that the Store does not answer
MaxFailures == MaxSends - 1
\* seconds the clock advances
MaxClock == 1
\* calls of sync_offline
MaxSyncs == 1

VARIABLES
    capture,            \* Step.capture
    rejection_counts,   \* Step._rejection_counts   : reason -> int
    rejection_samples,  \* Step._rejection_samples  : reason -> list of rejections
    sample_keys,        \* insertion order of the keys of _rejection_samples
    input_count,        \* Step._input_count
    output_count,       \* Step._output_count
    ended,              \* Step._ended_at is set (the step's __exit__ has run)
    step_name,          \* Step.name
    step_error,         \* Step._error
    acceptances,        \* Step._acceptances
    decisions,          \* Step._decisions
    run_steps,          \* Run._steps : the step records appended by __exit__
    calls,              \* history: reject calls made so far, per reason
    skipped,            \* history: negative draws of the random source
    late,               \* history: operations applied after __exit__
    RUNS,               \* api/storage.py RUNS : run_id -> run_data
    run_keys,           \* insertion order of the keys of RUNS
    response,           \* the reply of the request the API has just handled
    last_applied,       \* history: run_id -> the last submission inserted for it
    overwritten,        \* history: the run_ids inserted more than once
    offline_mode,       \* XRay.offline_mode
    offline_dir,        \* the files of XRay._offline_dir : file name -> document
    now,                \* datetime.utcnow(), in whole seconds
    pc,                 \* where the flow that owns the run stands
    pending,            \* the exception that is propagating through the run's body
    self_run_id,        \* Run.run_id
    run_status,         \* Run._status
    run_error,          \* Run._error
    run_started_at,     \* Run._started_at
    run_ended_at,       \* Run._ended_at
    begun,              \* history: the run_ids handed to XRay.run so far
    exits,              \* history: how each __exit__ of the run was entered
    sends,              \* history: the calls of Run._send, with their outcomes
    seals,              \* history: what each step held when its __exit__ began
    sync_log,           \* history: the last call of XRay.sync_offline
    syncers,            \* the calls of sync_offline in progress: their locals
    saving,             \* the document _save_offline has opened and not closed
    resent,             \* history: the documents whose resend the Store took
    outer               \* a Step the flow has opened beside the one it works on

stepVars == <<capture, rejection_counts, rejection_samples, sample_keys,
              input_count, output_count, ended, step_name, step_error,
              acceptances, decisions, run_steps, calls, skipped, late>>

storeVars == <<RUNS, run_keys, response, last_applied, overwritten>>

sideVars == <<syncers, saving, resent, outer>>

runVars == <<offline_mode, offline_dir, now, pc, pending, self_run_id, run_status,
             run_error, run_started_at, run_ended_at, begun, exits, sends,
             seals, sync_log, sideVars>>

vars == <<stepVars, storeVars, runVars>>

\* ------------------------------------------------------------ dict helpers
\* d.get(k, default)
Get(d, k, default) == IF k \in DOMAIN d THEN d[k] ELSE default

\* d[k] = v
Put(d, k, v) == [x \in (DOMAIN d) \cup {k} |-> IF x = k THEN v ELSE d[x]]

EmptyDict == [x \in {} |-> 0]

RECURSIVE SumOver(_, _)
SumOver(d, keys) ==
    IF keys = {} THEN 0
    ELSE LET k == CHOOSE x \in keys : TRUE
         IN d[k] + SumOver(d, keys \ {k})

\* sum(d.values())
SumValues(d) == SumOver(d, DOMAIN d)

\* ---------------------------------------------------------------- rationals
\* A float is modelled as the exact rational <<numerator, denominator>> in
\* lowest terms with a positive denominator.
Abs(x) == IF x < 0 THEN -x ELSE x

RECURSIVE Gcd(_, _)
Gcd(a, b) == IF b = 0 THEN a ELSE Gcd(b, a % b)

Frac(n, d) ==
    LET g == Gcd(Abs(n), Abs(d))
        s == IF d < 0 THEN -1 ELSE 1
    IN <<(s * n) \div g, (s * d) \div g>>

\* a / b  (b # 0)
Div(a, b) == Frac(a, b)

\* 1 - q
OneMinus(q) == Frac(q[2] - q[1], q[2])

\* ------------------------------------------------------------- Step.reject
\* mutant: the count is overwritten instead of incremented
IncrementCount_Overwrite(counts, reason) == Put(counts, reason, 1)

\* mutant: the count stops growing at the sample cap
IncrementCount_Capped(counts, reason) ==
    IF Get(counts, reason, 0) >= MAX_SAMPLES_PER_REASON THEN counts
    ELSE Put(counts, reason, Get(counts, reason, 0) + 1)

\* self._rejection_counts[reason] = self._rejection_counts.get(reason, 0) + 1
IncrementCount(counts, reason) == Put(counts, reason, Get(counts, reason, 0) + 1)

\* mutant: no guaranteed minimum, every call below the cap is drawn
should_sample_NoMinimum(samples, reason, draw) ==
    IF Len(Get(samples, reason, <<>>)) >= MAX_SAMPLES_PER_REASON THEN FALSE ELSE draw

\* Step._should_sample; draw is the outcome of random.random() < DEFAULT_SAMPLE_RATE
should_sample(samples, reason, draw) ==
    LET current_samples == Len(Get(samples, reason, <<>>))
    IN  IF current_samples < MIN_SAMPLES_PER_REASON THEN TRUE
        ELSE IF current_samples >= MAX_SAMPLES_PER_REASON THEN FALSE
        ELSE draw

\* mutant: capture "none" falls through to the sampling branch
SampleDecision_NoneAsSample(mode, samples, reason, draw) ==
    IF mode = "full" THEN TRUE
    ELSE IF Len(Get(samples, reason, <<>>)) < MIN_SAMPLES_PER_REASON THEN TRUE
    ELSE IF Len(Get(samples, reason, <<>>)) >= MAX_SAMPLES_PER_REASON THEN FALSE
    ELSE draw

\* the local should_sample of Step.reject
SampleDecision(mode, samples, reason, draw) ==
    IF mode = "full" THEN TRUE
    ELSE IF mode = "none" THEN FALSE
    ELSE should_sample(samples, reason, draw)

\* whether the outcome of the random source decides this call
DrawUsed(mode, samples, reason) ==
    SampleDecision(mode, samples, reason, TRUE) # SampleDecision(mode, samples, reason, FALSE)

\* mutant: the sample is appended without the cap check
KeepSample_NoCap(samples, reason, rejection) ==
    Put(samples, reason, Append(Get(samples, reason, <<>>), rejection))

\* the body of "if should_sample:" in Step.reject
KeepSample(samples, reason, rejection) ==
    LET s1 == IF reason \notin DOMAIN samples
              THEN Put(samples, reason, <<>>) ELSE samples
    IN  IF Len(s1[reason]) < MAX_SAMPLES_PER_REASON
        THEN Put(s1, reason, Append(s1[reason], rejection))
        ELSE s1

\* lines 116-137 of Step.reject: _rejection_samples after the call
SamplesAfterReject(mode, samples, reason, rejection, draw) ==
    IF SampleDecision(mode, samples, reason, draw)
    THEN KeepSample(samples, reason, rejection)
    ELSE samples

\* the flattening loop of Step._to_dict
RECURSIVE FlattenFrom(_, _, _)
FlattenFrom(samples, keys, i) ==
    IF i > Len(keys) THEN <<>>
    ELSE samples[keys[i]] \o FlattenFrom(samples, keys, i + 1)

sampled_rejections == FlattenFrom(rejection_samples, sample_keys, 1)

\* mutant: the pass rate is returned instead of the rejection rate
calculate_rejection_rate_NoComplement(ic, oc) ==
    IF ic = None \/ oc = None THEN None
    ELSE IF ic[1] = 0 THEN Frac(0, 1)
    ELSE Div(oc[1], ic[1])

\* Step._calculate_rejection_rate
calculate_rejection_rate(ic, oc) ==
    IF ic = None \/ oc = None THEN None
    ELSE IF ic[1] = 0 THEN Frac(0, 1)
    ELSE OneMinus(Div(oc[1], ic[1]))

\* mutant: a step that ends with an error is recorded without its events
to_dict_ErrorOnly ==
    [name               |-> step_name,
     input_count        |-> input_count,
     output_count       |-> output_count,
     rejection_rate     |-> calculate_rejection_rate(input_count, output_count),
     rejection_counts   |-> IF step_error = None THEN rejection_counts ELSE EmptyDict,
     sampled_rejections |-> IF step_error = None THEN sampled_rejections ELSE <<>>,
     acceptances        |-> IF step_error = None THEN acceptances ELSE <<>>,
     decisions          |-> IF step_error = None THEN decisions ELSE <<>>,
     error              |-> step_error]

\* Step._to_dict.  rejection_rate and sampled_rejections are built afresh at
\* the call; rejection_counts, acceptances and decisions are the step's own
\* objects, handed over by reference: the record holds what they hold at the
\* call, and StepRecord below reads them as a later reader finds them.
to_dict ==
    [name               |-> step_name,
     input_count        |-> input_count,
     output_count       |-> output_count,
     rejection_rate     |-> calculate_rejection_rate(input_count, output_count),
     rejection_counts   |-> rejection_counts,
     sampled_rejections |-> sampled_rejections,
     acceptances        |-> acceptances,
     decisions          |-> decisions,
     error              |-> step_error]

\* The i-th record of Run._steps as a reader sees it: the record of the step
\* object the flow still holds shares that step's dict and lists; the objects
\* of an earlier step have no one left to change them.
StepRecord(i) ==
    IF run_steps[i].name = step_name
    THEN [run_steps[i] EXCEPT !.rejection_counts = rejection_counts,
                              !.acceptances = acceptances,
                              !.decisions = decisions]
    ELSE run_steps[i]

\* "steps": self._steps as Run._send serializes it
StepRecords == [i \in DOMAIN run_steps |-> StepRecord(i)]

\* ------------------------------------------------------------------ actions
Late == IF ended THEN late + 1 ELSE late

\* Step.reject(item_id, reason, details); the caller rejects a fresh item,
\* identified by the reason and its ordinal among that reason's rejections.
reject(reason, draw) ==
    LET rejection == [item_id |-> calls[reason] + 1, reason |-> reason]
        samples1  == SamplesAfterReject(capture, rejection_samples, reason, rejection, draw)
    IN  /\ rejection_counts' = IncrementCount(rejection_counts, reason)
        /\ rejection_samples' = samples1
        /\ sample_keys' = IF reason \in DOMAIN samples1 /\ reason \notin DOMAIN rejection_samples
                          THEN Append(sample_keys, reason) ELSE sample_keys
        /\ calls' = [calls EXCEPT ![reason] = @ + 1]
        /\ skipped' = IF DrawUsed(capture, rejection_samples, reason) /\ ~draw
                      THEN skipped + 1 ELSE skipped
        /\ late' = Late
        /\ UNCHANGED <<capture, input_count, output_count, ended, run_steps,
                       step_name, step_error, acceptances, decisions>>

\* Step.set_input_count
set_input_count(count) ==
    /\ input_count' = Some(count)
    /\ late' = Late
    /\ UNCHANGED <<capture, rejection_counts, rejection_samples, sample_keys,
                   output_count, ended, run_steps, calls, skipped,
                   step_name, step_error, acceptances, decisions>>

\* Step.set_output_count
set_output_count(count) ==
    /\ output_count' = Some(count)
    /\ late' = Late
    /\ UNCHANGED <<capture, rejection_counts, rejection_samples, sample_keys,
                   input_count, ended, run_steps, calls, skipped,
                   step_name, step_error, acceptances, decisions>>

\* Step.accept(item_id)
accept(item_id) ==
    /\ acceptances' = Append(acceptances, [item_id |-> item_id, reason |-> None])
    /\ late' = Late
    /\ UNCHANGED <<capture, rejection_counts, rejection_samples, sample_keys,
                   input_count, output_count, ended, run_steps, calls, skipped,
                   step_name, step_error, decisions>>

\* Step.decide(decision, selected)
decide(decision, selected) ==
    /\ decisions' = Append(decisions, [decision |-> decision, selected |-> selected])
    /\ late' = Late
    /\ UNCHANGED <<capture, rejection_counts, rejection_samples, sample_keys,
                   input_count, output_count, ended, run_steps, calls, skipped,
                   step_name, step_error, acceptances>>

\* mutant: the step is registered with the run only when its block ended well
add_step_UnlessFault(steps, step_data) ==
    IF step_data.error = None THEN Append(steps, step_data) ELSE steps

\* Run._add_step
add_step(steps, step_data) == Append(steps, step_data)

\* Step.__exit__(exc_type, exc_val, exc_tb): the `with` block of the step is
\* left, normally (exc = None) or by the exception whose message is exc[1]
StepExit(exc) ==
    /\ ~ended
    /\ ended' = TRUE
    /\ step_error' = IF exc # None THEN exc ELSE step_error
    /\ UNCHANGED <<capture, rejection_counts, rejection_samples, sample_keys,
                   input_count, output_count, calls, skipped, late,
                   step_name, acceptances, decisions>>
    /\ run_steps' = add_step(run_steps, to_dict')


\* ------------------------------------------------- api/models.py: submissions
RunIds == {"r1", "r2"}
Pipelines == {"p", "q"}
Statuses == {"completed", "failed"}
\* started_at: ISO timestamps of one format compare as their instants do
Times == {1, 2}

\* A string that the code lower-cases or searches is a tuple of characters.
\* The steps a submitted run carries, by pipeline and outcome.
StepsOf(pipeline, status) ==
    IF pipeline = "p" /\ status = "completed" THEN
        << [name |-> <<"F", "i">>, step_type |-> Some("filter"), rejection_rate |-> <<4, 5>>],
           [name |-> <<"s", "e">>, step_type |-> Some("select"), rejection_rate |-> None] >>
    ELSE IF pipeline = "p" THEN
        << [name |-> <<"F", "i">>, step_type |-> Some("filter"), rejection_rate |-> <<1, 2>>] >>
    ELSE IF status = "completed" THEN
        << [name |-> <<"f", "x">>, step_type |-> None, rejection_rate |-> <<0, 1>>] >>
    ELSE
        << [name |-> <<"s", "e">>, step_type |-> Some("filter"), rejection_rate |-> <<1, 1>>] >>

\* The request bodies POST /runs accepts: the full record the SDK sends
\* (Run._send), and a body that gives only the required fields.
Submissions ==
    { [run_id |-> id, pipeline |-> p, status |-> st, started_at |-> t,
       steps |-> StepsOf(p, st)] :
         id \in RunIds, p \in Pipelines, st \in Statuses,
         t \in {None} \cup {Some(x) : x \in Times} }
    \cup { [run_id |-> id, pipeline |-> p] : id \in RunIds, p \in Pipelines }

\* RunCreate(...).model_dump(): absent optional fields take their defaults
model_dump(body) ==
    [run_id     |-> body.run_id,
     pipeline   |-> body.pipeline,
     status     |-> IF "status" \in DOMAIN body THEN body.status ELSE "completed",
     error      |-> IF "error" \in DOMAIN body THEN body.error ELSE None,
     started_at |-> IF "started_at" \in DOMAIN body THEN body.started_at ELSE None,
     ended_at   |-> IF "ended_at" \in DOMAIN body THEN body.ended_at ELSE None,
     duration_ms |-> IF "duration_ms" \in DOMAIN body THEN body.duration_ms ELSE None,
     steps      |-> IF "steps" \in DOMAIN body THEN body.steps ELSE <<>>]

\* ------------------------------------------------------------ api/storage.py
\* mutant: an existing record is updated field by field, keeping its steps
insert_run_Merge(runs, run_data) ==
    IF run_data.run_id \in DOMAIN runs
    THEN Put(runs, run_data.run_id,
             [run_data EXCEPT !.steps = runs[run_data.run_id].steps])
    ELSE Put(runs, run_data.run_id, run_data)

\* insert_run: RUNS[run_id] = run_data
insert_run(runs, run_data) == Put(runs, run_data.run_id, run_data)

\* the keys of a dict after d[k] = v: a new key goes last, an old one stays
KeysAfterPut(keys, d, k) == IF k \in DOMAIN d THEN keys ELSE Append(keys, k)

\* RUNS.values()
Values(runs, keys) == [i \in 1 .. Len(keys) |-> runs[keys[i]]]

\* truthiness of an Optional[str] argument: None and "" are false
Truthy(arg) == arg # None /\ arg[1] # ""

\* the same for a string held as a tuple of characters
TruthyChars(arg) == arg # None /\ arg[1] # <<>>

\* seq[offset:offset + limit] for offset >= 0, limit >= 0
Slice(seq, offset, limit) ==
    LET hi == IF offset + limit < Len(seq) THEN offset + limit ELSE Len(seq)
    IN  [i \in 1 .. (IF hi > offset THEN hi - offset ELSE 0) |-> seq[offset + i]]

\* list.sort(key=started_at, reverse=True) raises TypeError when it compares
\* a None key: every element of a list of two or more is compared
SortRaises(seq) == Len(seq) >= 2 /\ \E i \in DOMAIN seq : seq[i].started_at = None

\* mutant: among equal keys the element inserted last comes first
RECURSIVE InsertDesc_TiesReversed(_, _)
InsertDesc_TiesReversed(sorted, x) ==
    IF sorted = <<>> THEN <<x>>
    ELSE IF sorted[1].started_at[1] > x.started_at[1]
         THEN <<sorted[1]>> \o InsertDesc_TiesReversed(Tail(sorted), x)
         ELSE <<x>> \o sorted

\* one step of the stable descending sort: x goes behind every element whose
\* key is not smaller than its own
RECURSIVE InsertDesc(_, _)
InsertDesc(sorted, x) ==
    IF sorted = <<>> THEN <<x>>
    ELSE IF sorted[1].started_at[1] >= x.started_at[1]
         THEN <<sorted[1]>> \o InsertDesc(Tail(sorted), x)
         ELSE <<x>> \o sorted

\* list.sort(key=lambda r: r.get("started_at", ""), reverse=True); a list of
\* one element is returned as it is, whatever its key
RECURSIVE SortDesc(_)
SortDesc(seq) ==
    IF Len(seq) <= 1 THEN seq
    ELSE InsertDesc(SortDesc(SubSeq(seq, 1, Len(seq) - 1)), seq[Len(seq)])

\* mutant: the summary counts a run of which only the first step has arrived
RunSummary_FirstStepOnly(run) ==
    [run_id     |-> run.run_id,
     pipeline   |-> run.pipeline,
     status     |-> run.status,
     started_at |-> run.started_at,
     step_count |-> IF run.steps = <<>> THEN 0 ELSE 1]

\* the summary dict list_runs builds for one run
RunSummary(run) ==
    [run_id     |-> run.run_id,
     pipeline   |-> run.pipeline,
     status     |-> run.status,
     started_at |-> run.started_at,
     step_count |-> Len(run.steps)]

\* list_runs(pipeline, status, limit, offset); error stands for the TypeError
\* that leaves the function (GET /runs answers 500)
list_runs(runs, keys, pipeline, status, limit, offset) ==
    LET keep(run) == /\ ~(Truthy(pipeline) /\ run.pipeline # pipeline[1])
                     /\ ~(Truthy(status) /\ run.status # status[1])
        filtered  == SelectSeq(Values(runs, keys), keep)
    IN  IF SortRaises(filtered)
        THEN [error |-> TRUE]
        ELSE LET sorted    == SortDesc(filtered)
                 paginated == Slice(sorted, offset, limit)
             IN  [error |-> FALSE,
                  runs  |-> [i \in DOMAIN paginated |-> RunSummary(paginated[i])],
                  total |-> Len(sorted)]

\* str.lower()
LowerChar(c) ==
    IF c = "F" THEN "f" ELSE IF c = "I" THEN "i" ELSE IF c = "S" THEN "s"
    ELSE IF c = "E" THEN "e" ELSE IF c = "X" THEN "x" ELSE c

\* mutant: the strings are compared as they are
Lower_AsIs(str) == str

Lower(str) == [i \in DOMAIN str |-> LowerChar(str[i])]

\* needle in hay
Contains(hay, needle) ==
    \E k \in 0 .. (Len(hay) - Len(needle)) :
       \A j \in 1 .. Len(needle) : hay[k + j] = needle[j]

\* mutant: the threshold itself passes the greater-than filter
RateLeq_Strict(a, b) == a[1] * b[2] < b[1] * a[2]

\* comparisons of two floats
RateLeq(a, b) == a[1] * b[2] <= b[1] * a[2]
RateGeq(a, b) == a[1] * b[2] >= b[1] * a[2]

\* the collecting loop of list_steps over one run
StepsWithRun(run) ==
    [i \in DOMAIN run.steps |->
        [run_id         |-> run.run_id,
         pipeline       |-> run.pipeline,
         step_name      |-> run.steps[i].name,
         step_type      |-> run.steps[i].step_type,
         rejection_rate |-> run.steps[i].rejection_rate]]

RECURSIVE AllStepsFrom(_, _)
AllStepsFrom(values, i) ==
    IF i > Len(values) THEN <<>>
    ELSE StepsWithRun(values[i]) \o AllStepsFrom(values, i + 1)

\* list_steps(step_type, name, rejection_rate_gt, rejection_rate_lt, limit, offset)
list_steps(runs, keys, step_type, name, rate_gt, rate_lt, limit, offset) ==
    LET all_steps  == AllStepsFrom(Values(runs, keys), 1)
        keep(step) ==
           /\ ~(Truthy(step_type) /\ step.step_type # step_type)
           /\ ~(TruthyChars(name) /\ ~Contains(Lower(step.step_name), Lower(name[1])))
           /\ ~(rate_gt # None /\ (step.rejection_rate = None
                                    \/ RateLeq(step.rejection_rate, rate_gt)))
           /\ ~(rate_lt # None /\ (step.rejection_rate = None
                                    \/ RateGeq(step.rejection_rate, rate_lt)))
        filtered   == SelectSeq(all_steps, keep)
    IN  [error |-> FALSE,
         steps |-> Slice(filtered, offset, limit),
         total |-> Len(filtered)]

\* -------------------------------------------------------------- api/main.py
\* the arguments of the query endpoints that the model explores
MaxLimit == 2
MaxOffset == 2
PipelineArgs == {None, Some(""), Some("p"), Some("q")}
StatusArgs == {None, Some("completed"), Some("failed")}
StepTypeArgs == {None, Some("filter")}
NameArgs == {None, Some(<<>>), Some(<<"f">>), Some(<<"S", "E">>)}
RateArgs == {None, <<0, 1>>, <<1, 2>>}

\* the event loop runs one handler at a time: a handler starts when the reply
\* of the one before it has been handed back
NoResponse == [op |-> "none"]

\* POST /runs: create_run validates the body, dumps it and inserts it; the
\* handler has no await, so it runs to its end before another request starts
create_run(body) ==
    LET run_data == model_dump(body)
    IN  /\ response = NoResponse
        /\ RUNS' = insert_run(RUNS, run_data)
        /\ run_keys' = KeysAfterPut(run_keys, RUNS, run_data.run_id)
        /\ response' = [op |-> "create_run", run_id |-> run_data.run_id]
        /\ last_applied' = Put(last_applied, body.run_id, body)
        /\ overwritten' = IF body.run_id \in DOMAIN RUNS
                          THEN overwritten \cup {body.run_id} ELSE overwritten
        /\ UNCHANGED <<stepVars, runVars>>

\* GET /runs
get_runs(pipeline, status, limit, offset) ==
    /\ response = NoResponse
    /\ response' = [op |-> "list_runs",
                    result |-> list_runs(RUNS, run_keys, pipeline, status, limit, offset)]
    /\ UNCHANGED <<RUNS, run_keys, last_applied, overwritten>>
    /\ UNCHANGED <<stepVars, runVars>>

\* GET /steps
get_steps(step_type, name, rate_gt, rate_lt, limit, offset) ==
    /\ response = NoResponse
    /\ response' = [op |-> "list_steps",
                    result |-> list_steps(RUNS, run_keys, step_type, name,
                                          rate_gt, rate_lt, limit, offset)]
    /\ UNCHANGED <<RUNS, run_keys, last_applied, overwritten>>
    /\ UNCHANGED <<stepVars, runVars>>

\* the reply leaves the server
Reply ==
    /\ response # NoResponse
    /\ response' = NoResponse
    /\ UNCHANGED <<RUNS, run_keys, last_applied, overwritten>>
    /\ UNCHANGED <<stepVars, runVars>>

\* mutant: the lookup returns the run as the list view shows it, without steps
get_run_NoSteps(runs, run_id) ==
    IF run_id \in DOMAIN runs THEN [runs[run_id] EXCEPT !.steps = <<>>] ELSE None

\* storage.get_run
get_run(runs, run_id) == Get(runs, run_id, None)

\* the identifiers GET /runs/{run_id} is asked for: those that submissions
\* use and one that no submission uses
LookupIds == RunIds \cup {"r0"}

\* mutant: the lookup takes the run out of the Store
get_run_detail_Pops(id) ==
    LET run == get_run(RUNS, id)
        other(k) == k # id
    IN  /\ response = NoResponse
        /\ response' = IF run = None \/ DOMAIN run = {}
                        THEN [op |-> "get_run", run_id |-> id, status |-> 404]
                        ELSE [op |-> "get_run", run_id |-> id, status |-> 200,
                              run |-> run]
        /\ RUNS' = [k \in (DOMAIN RUNS) \ {id} |-> RUNS[k]]
        /\ run_keys' = SelectSeq(run_keys, other)
        /\ UNCHANGED <<last_applied, overwritten>>
        /\ UNCHANGED <<stepVars, runVars>>

\* GET /runs/{run_id}: 404 when storage.get_run gives nothing (None, or a
\* dict that is empty), otherwise the stored dict as a RunDetail
get_run_detail(id) ==
    LET run == get_run(RUNS, id)
    IN  /\ response = NoResponse
        /\ response' = IF run = None \/ DOMAIN run = {}
                        THEN [op |-> "get_run", run_id |-> id, status |-> 404]
                        ELSE [op |-> "get_run", run_id |-> id, status |-> 200,
                              run |-> run]
        /\ UNCHANGED <<RUNS, run_keys, last_applied, overwritten>>
        /\ UNCHANGED <<stepVars, runVars>>

\* storage.py at import: RUNS = {}
InitStore ==
    /\ RUNS = EmptyDict
    /\ run_keys = <<>>
    /\ response = NoResponse
    /\ last_applied = EmptyDict
    /\ overwritten = {}

\* ------------------------------------------------------------- sdk/xray.py
OfflineModes == {"buffer", "drop", "strict"}

\* the messages of the exceptions the pipeline's code raises: inside a step's
\* block, and in the run's body outside any step
StepFaults == {"boom"}
BodyFaults == {"oops"}

\* XRay.pipeline
ClientPipeline == "p"

\* ------------------------------------------------------------- sdk/run.py
\* Run._calculate_duration: int(delta.total_seconds() * 1000)
calculate_duration(t0, t1) ==
    IF t1 = None THEN None ELSE Some((t1[1] - t0) * 1000)

\* Run.__exit__: self._status after the branch on exc_type
exit_status(exc) ==
    IF exc # None THEN "failed" ELSE "completed"

\* Run.__exit__: self._error after the branch on exc_type (str(exc_val))
exit_error(exc, error) ==
    IF exc # None THEN exc ELSE error

\* the dict Run._send builds
run_data(id, status, error, t0, t1, steps) ==
    [run_id      |-> id,
     pipeline    |-> ClientPipeline,
     status      |-> status,
     error       |-> error,
     started_at  |-> Some(t0),
     ended_at    |-> t1,
     duration_ms |-> calculate_duration(t0, t1),
     steps       |-> steps]

\* what POST /runs comes to, as XRay._send_run sees it: the Store took the
\* record and answered 200, or the request did not get through (connection
\* refused, no answer within the timeout, an answer other than 200/201)
Outcomes == {"stored", "unreachable"}

\* XRay._send_run: True exactly for an answer 200 or 201
send_run(outcome) == outcome = "stored"

\* mutant: the branches of buffer and strict are swapped
on_failure_Swapped(mode) ==
    IF mode = "buffer" THEN "raise"
    ELSE IF mode = "strict" THEN "save"
    ELSE "ignore"

\* mutant: drop falls into the buffer branch
on_failure_DropSaves(mode) ==
    IF mode = "strict" THEN "raise" ELSE "save"

\* mutant: every policy but buffer raises
on_failure_DropRaises(mode) ==
    IF mode = "buffer" THEN "save" ELSE "raise"

\* Run._send, "if not success": what the policy makes of a failed send
on_failure(mode) ==
    IF mode = "buffer" THEN "save"
    ELSE IF mode = "strict" THEN "raise"
    ELSE "ignore"

\* ------------------------------------------------------------- sdk/xray.py
\* json.dump / json.load of an Optional: null, or the value
JsonOpt(v) == IF v = None THEN <<"null">> ELSE <<"value", v[1]>>
LoadOpt(j) == IF j[1] = "null" THEN None ELSE Some(j[2])

\* ... of a float or None: null, or the number (repr round-trips a float)
JsonNum(q) == IF q = None THEN <<"null">> ELSE <<"number", q[1], q[2]>>
LoadNum(j) == IF j[1] = "null" THEN None ELSE <<j[2], j[3]>>

\* json.dump of a step record and its inverse json.load
JsonStep(st) ==
    [st EXCEPT !.input_count = JsonOpt(@), !.output_count = JsonOpt(@),
               !.rejection_rate = JsonNum(@), !.error = JsonOpt(@)]

LoadStep(j) ==
    [j EXCEPT !.input_count = LoadOpt(@), !.output_count = LoadOpt(@),
              !.rejection_rate = LoadNum(@), !.error = LoadOpt(@)]

\* mutant: only the run's summary is written, without its steps
json_dump_NoSteps(data) ==
    [data EXCEPT !.error = JsonOpt(@), !.started_at = JsonOpt(@),
                 !.ended_at = JsonOpt(@), !.duration_ms = JsonOpt(@),
                 !.steps = <<>>]

\* json.dump(run_data, f, indent=2, default=str)
json_dump(data) ==
    [data EXCEPT !.error = JsonOpt(@), !.started_at = JsonOpt(@),
                 !.ended_at = JsonOpt(@), !.duration_ms = JsonOpt(@),
                 !.steps = [i \in DOMAIN @ |-> JsonStep(@[i])]]

\* json.load(f)
json_load(doc) ==
    [doc EXCEPT !.error = LoadOpt(@), !.started_at = LoadOpt(@),
                !.ended_at = LoadOpt(@), !.duration_ms = LoadOpt(@),
                !.steps = [i \in DOMAIN @ |-> LoadStep(@[i])]]

\* the file name XRay._save_offline builds: the run_id and utcnow() to the second
FileName(id, t) == <<id, t>>

\* XRay._save_offline: open(filepath, "w") creates the file or replaces it
save_offline(dir, data, t) == Put(dir, FileName(data.run_id, t), json_dump(data))

\* filepath.unlink()
Unlink(dir, f) == [x \in (DOMAIN dir) \ {f} |-> dir[x]]

\* the Store as POST /runs changes it
StoreState == [runs |-> RUNS, keys |-> run_keys, last |-> last_applied,
               over |-> overwritten]

\* create_run applied to a Store
Ingest(st, body) ==
    [runs |-> insert_run(st.runs, model_dump(body)),
     keys |-> KeysAfterPut(st.keys, st.runs, body.run_id),
     last |-> Put(st.last, body.run_id, body),
     over |-> IF body.run_id \in DOMAIN st.runs
              THEN st.over \cup {body.run_id} ELSE st.over]

StoreBecomes(st) ==
    /\ RUNS' = st.runs
    /\ run_keys' = st.keys
    /\ last_applied' = st.last
    /\ overwritten' = st.over

\* XRay.sync_offline, the branch on self._send_run(run_data): the file stays
\* unless the resend succeeded
sync_keeps(f, oks) == f \notin oks

\* XRay.sync_offline, the loop over the files of the retry area in the order
\* glob yields them; oks are the files whose resend the Store answers with 200
RECURSIVE SyncLoop(_, _, _, _, _)
SyncLoop(order, i, oks, dir, st) ==
    IF i > Len(order) THEN [dir |-> dir, store |-> st, synced |-> 0, failed |-> 0]
    ELSE LET f    == order[i]
             data == json_load(dir[f])
             ok   == f \in oks
             rest == SyncLoop(order, i + 1, oks,
                              IF sync_keeps(f, oks) THEN dir ELSE Unlink(dir, f),
                              IF ok THEN Ingest(st, data) ELSE st)
         IN  [rest EXCEPT !.synced = @ + (IF ok THEN 1 ELSE 0),
                          !.failed = @ + (IF ok THEN 0 ELSE 1)]

\* the orders in which glob may yield the files of a directory
Orders(files) ==
    {o \in [1 .. Cardinality(files) -> files] :
        \A i, j \in DOMAIN o : o[i] = o[j] => i = j}

\* XRay.sync_offline
sync_offline(order, oks) ==
    LET res == SyncLoop(order, 1, oks, offline_dir, StoreState)
    IN  /\ offline_dir' = res.dir
        /\ StoreBecomes(res.store)
        /\ sync_log' = [calls |-> sync_log.calls + 1,
                        scanned |-> offline_dir, oks |-> oks,
                        result |-> [synced |-> res.synced, failed |-> res.failed]]
        /\ UNCHANGED <<stepVars, response, offline_mode, now, pc, pending,
                       self_run_id, run_status, run_error, run_started_at,
                       run_ended_at, begun, exits, sends, seals, sideVars>>

\* XRay.run(input, run_id): Run.__init__, and the flow enters the run's block
begin_run(id) ==
    /\ self_run_id' = id
    /\ run_status' = "running"
    /\ run_error' = None
    /\ run_started_at' = now
    /\ run_ended_at' = None
    /\ run_steps' = <<>>
    /\ begun' = begun \cup {id}
    /\ exits' = <<>>
    /\ seals' = <<>>
    /\ pc' = "body"
    /\ UNCHANGED <<capture, rejection_counts, rejection_samples, sample_keys,
                   input_count, output_count, ended, step_name, step_error,
                   acceptances, decisions, calls, skipped, late>>
    /\ UNCHANGED <<storeVars, offline_mode, offline_dir, now, pending, sends,
                   sync_log, sideVars>>

\* Run.step(name, step_type, capture): Step.__init__, and the flow enters the
\* step's block; the steps of a run are named by their ordinal
begin_step(mode) ==
    /\ capture' = mode
    /\ rejection_counts' = EmptyDict
    /\ rejection_samples' = EmptyDict
    /\ sample_keys' = <<>>
    /\ input_count' = None
    /\ output_count' = None
    /\ ended' = FALSE
    /\ step_name' = step_name + 1
    /\ step_error' = None
    /\ acceptances' = <<>>
    /\ decisions' = <<>>
    /\ run_steps' = StepRecords
    /\ calls' = [r \in Reasons |-> 0]
    /\ skipped' = 0
    /\ late' = 0
    /\ pc' = "step"
    /\ UNCHANGED <<storeVars, offline_mode, offline_dir, now, pending,
                   self_run_id, run_status, run_error, run_started_at,
                   run_ended_at, begun, exits, sends, seals, sync_log, sideVars>>

\* Run.__exit__(exc_type, exc_val, exc_tb) with Run._send: the run's block is
\* left, normally (exc = None) or by the exception whose message is exc[1];
\* outcome is what the POST of the record comes to
RunExit(exc, outcome) ==
    LET ended_at == Some(now)
        status   == exit_status(exc)
        error    == exit_error(exc, run_error)
        data     == run_data(self_run_id, status, error, run_started_at,
                             ended_at, StepRecords)
        success  == send_run(outcome)
        action   == IF success THEN "none" ELSE on_failure(offline_mode)
    IN  /\ run_ended_at' = ended_at
        /\ run_status' = status
        /\ run_error' = error
        /\ StoreBecomes(IF success THEN Ingest(StoreState, data) ELSE StoreState)
        /\ offline_dir' = IF action = "save"
                          THEN save_offline(offline_dir, data, now)
                          ELSE offline_dir
        /\ exits' = Append(exits, exc)
        /\ sends' = Append(sends, [record |-> data, exc |-> exc, mode |-> offline_mode,
                                   sealed |-> Len(seals),
                                   success |-> success, raised |-> action = "raise",
                                   file |-> IF action = "save"
                                            THEN Some(FileName(data.run_id, now))
                                            ELSE None])
        /\ pc' = "exited"
        /\ pending' = None
        /\ UNCHANGED <<stepVars, response, offline_mode, now, self_run_id,
                       run_started_at, begun, seals, sync_log, sideVars>>

\* the flows that may call sync_offline at the same time
MaxSyncers == 2
\* runs finalized while calls of sync_offline are under way
MaxSaves == 2
Syncers == 1 .. MaxSyncers

\* no call of sync_offline is in progress, no document is being written and
\* the flow holds no step beside the current one
InitSync ==
    /\ syncers = [s \in Syncers |-> [pc |-> "idle"]]
    /\ saving = None
    /\ resent = {}
    /\ outer = None

\* the retry area's file between open(filepath, "w") and the end of the
\* `with` block: created or cut to nothing, its text not yet all written
Truncated == [truncated |-> TRUE]

\* json.load(f) returns (it raises on a text that is cut short)
Loads(doc) == "truncated" \notin DOMAIN doc

\* what a step of sync_offline leaves alone: the run, its steps and its flow
ownerVars == <<offline_mode, now, pc, pending, self_run_id, run_status,
               run_error, run_started_at, run_ended_at, begun, exits, sends,
               seals, sync_log>>

\* XRay.sync_offline, line 109: glob lists the retry area, once, in any order
sync_scan(s, order) ==
    /\ syncers[s].pc = "idle"
    /\ syncers' = [syncers EXCEPT ![s] = [pc |-> "iter", todo |-> order,
                                          synced |-> 0, failed |-> 0]]
    /\ UNCHANGED <<stepVars, storeVars, ownerVars, offline_dir, saving, resent, outer>>

\* lines 110-112: the next file is opened and loaded; a file that is gone
\* or cut short raises, and `except Exception` counts it as failed
sync_load(s) ==
    LET me == syncers[s]
        f  == Head(me.todo)
    IN  /\ me.pc = "iter"
        /\ me.todo # <<>>
        /\ syncers' = [syncers EXCEPT ![s] =
               IF f \in DOMAIN offline_dir /\ Loads(offline_dir[f])
               THEN [pc |-> "loaded", todo |-> me.todo, synced |-> me.synced,
                     failed |-> me.failed, doc |-> offline_dir[f],
                     run_data |-> json_load(offline_dir[f])]
               ELSE [pc |-> "iter", todo |-> Tail(me.todo), synced |-> me.synced,
                     failed |-> me.failed + 1]]
        /\ UNCHANGED <<stepVars, storeVars, ownerVars, offline_dir, saving, resent, outer>>

\* line 114: self._send_run(run_data); a failed resend is counted (117-118)
sync_send(s, outcome) ==
    LET me == syncers[s]
        ok == send_run(outcome)
    IN  /\ me.pc = "loaded"
        /\ StoreBecomes(IF ok THEN Ingest(StoreState, me.run_data) ELSE StoreState)
        /\ resent' = IF ok THEN resent \cup {<<Head(me.todo), me.doc>>} ELSE resent
        /\ syncers' = [syncers EXCEPT ![s] =
               IF ok
               THEN [me EXCEPT !.pc = "sent"]
               ELSE [pc |-> "iter", todo |-> Tail(me.todo), synced |-> me.synced,
                     failed |-> me.failed + 1]]
        /\ UNCHANGED <<stepVars, response, ownerVars, offline_dir, saving, outer>>

\* lines 115-116: filepath.unlink() and synced += 1; unlink raises when the
\* file is gone, and `except Exception` counts the file as failed
sync_unlink(s) ==
    LET me == syncers[s]
        f  == Head(me.todo)
        there == f \in DOMAIN offline_dir
    IN  /\ me.pc = "sent"
        /\ offline_dir' = IF there THEN Unlink(offline_dir, f) ELSE offline_dir
        /\ syncers' = [syncers EXCEPT ![s] =
               [pc |-> "iter", todo |-> Tail(me.todo),
                synced |-> me.synced + (IF there THEN 1 ELSE 0),
                failed |-> me.failed + (IF there THEN 0 ELSE 1)]]
        /\ UNCHANGED <<stepVars, storeVars, ownerVars, saving, resent, outer>>

\* line 122: the loop is over and the counts are returned
sync_return(s) ==
    LET me == syncers[s]
    IN  /\ me.pc = "iter"
        /\ me.todo = <<>>
        /\ syncers' = [syncers EXCEPT ![s] =
               [pc |-> "done", result |-> [synced |-> me.synced, failed |-> me.failed]]]
        /\ UNCHANGED <<stepVars, storeVars, ownerVars, offline_dir, saving, resent, outer>>

\* Run.__exit__ and Run._send up to the open(filepath, "w") of _save_offline:
\* as RunExit, but a save leaves the file opened and cut to nothing
RunExitOpening(exc, outcome) ==
    LET ended_at == Some(now)
        status   == exit_status(exc)
        error    == exit_error(exc, run_error)
        data     == run_data(self_run_id, status, error, run_started_at,
                             ended_at, StepRecords)
        success  == send_run(outcome)
        action   == IF success THEN "none" ELSE on_failure(offline_mode)
        file     == FileName(data.run_id, now)
    IN  /\ run_ended_at' = ended_at
        /\ run_status' = status
        /\ run_error' = error
        /\ StoreBecomes(IF success THEN Ingest(StoreState, data) ELSE StoreState)
        /\ offline_dir' = IF action = "save"
                          THEN Put(offline_dir, file, Truncated)
                          ELSE offline_dir
        /\ saving' = IF action = "save"
                     THEN Some([file |-> file, data |-> data]) ELSE None
        /\ exits' = Append(exits, exc)
        /\ sends' = Append(sends, [record |-> data, exc |-> exc, mode |-> offline_mode,
                                   sealed |-> Len(seals),
                                   success |-> success, raised |-> action = "raise",
                                   file |-> IF action = "save" THEN Some(file) ELSE None])
        /\ pc' = IF action = "save" THEN "saving" ELSE "exited"
        /\ pending' = None
        /\ UNCHANGED <<stepVars, response, offline_mode, now, self_run_id,
                       run_started_at, begun, seals, sync_log, syncers, resent,
                       outer>>

\* _save_offline, lines 93-94: json.dump writes the text and the `with` block
\* closes the file; the text of a file that was unlinked meanwhile goes to
\* no name of the directory
save_close ==
    /\ pc = "saving"
    /\ offline_dir' = IF saving[1].file \in DOMAIN offline_dir
                      THEN Put(offline_dir, saving[1].file, json_dump(saving[1].data))
                      ELSE offline_dir
    /\ saving' = None
    /\ pc' = "exited"
    /\ UNCHANGED <<stepVars, storeVars, offline_mode, now, pending, self_run_id,
                   run_status, run_error, run_started_at, run_ended_at, begun,
                   exits, sends, seals, sync_log, syncers, resent, outer>>

\* XRay.__init__
InitXRay(modes) ==
    /\ offline_mode \in modes
    /\ offline_dir = EmptyDict
    /\ now = 0
    /\ begun = {}
    /\ sends = <<>>
    /\ sync_log = [calls |-> 0]
    /\ InitSync

\* no Run has been begun yet
NoRun ==
    /\ pc = "exited"
    /\ pending = None
    /\ self_run_id = None
    /\ run_status = None
    /\ run_error = None
    /\ run_started_at = None
    /\ run_ended_at = None
    /\ exits = <<>>
    /\ seals = <<>>

\* XRay.__init__, and Run.__init__ as XRay.run calls it; the flow that owns
\* the run stands inside the run's `with` block, in the block of the run's
\* first step
InitRunWith(modes) ==
    /\ offline_mode \in modes
    /\ offline_dir = EmptyDict
    /\ now = 0
    /\ pc = "step"
    /\ pending = None
    /\ self_run_id = "r1"
    /\ run_status = "running"
    /\ run_error = None
    /\ run_started_at = 0
    /\ run_ended_at = None
    /\ begun = {"r1"}
    /\ exits = <<>>
    /\ sends = <<>>
    /\ seals = <<>>
    /\ sync_log = [calls |-> 0]
    /\ InitSync

\* the default policy (xray.py:42)
InitRun == InitRunWith({"buffer"})

\* ------------------------------------------------------------ specifications
TotalCalls == SumValues(calls)

\* Step.__init__ (via Run.step(name, step_type, capture))
InitStep ==
    /\ capture \in CaptureModes
    /\ rejection_counts = EmptyDict
    /\ rejection_samples = EmptyDict
    /\ sample_keys = <<>>
    /\ input_count = None
    /\ output_count = None
    /\ ended = FALSE
    /\ step_name = 1
    /\ step_error = None
    /\ acceptances = <<>>
    /\ decisions = <<>>
    /\ run_steps = <<>>
    /\ calls = [r \in Reasons |-> 0]
    /\ skipped = 0
    /\ late = 0

\* bounds on what the caller does and on the random source
MayReject(reason, draw, maxCalls) ==
    /\ TotalCalls < maxCalls
    /\ ended => late < MaxLateCalls
    /\ (DrawUsed(capture, rejection_samples, reason) /\ ~draw) => skipped < MaxSkips

Init == InitStep /\ InitStore /\ InitRun

RejectStep == \E reason \in Reasons, draw \in BOOLEAN :
                 MayReject(reason, draw, MaxCalls) /\ reject(reason, draw)
                    /\ UNCHANGED <<storeVars, runVars>>

SealStep == StepExit(None) /\ UNCHANGED <<storeVars, runVars>>

\* Spec: the sampler under long sequences of reject calls
Next == RejectStep \/ SealStep

Spec == Init /\ [][Next]_vars

RejectFew == \E reason \in Reasons, draw \in BOOLEAN :
                MayReject(reason, draw, MaxStepRejects) /\ reject(reason, draw)
                   /\ UNCHANGED <<storeVars, runVars>>

SetInputCount == \E c \in CountValues :
                    (ended => late < MaxLateCalls) /\ set_input_count(c)
                       /\ UNCHANGED <<storeVars, runVars>>

SetOutputCount == \E c \in CountValues :
                     (ended => late < MaxLateCalls) /\ set_output_count(c)
                        /\ UNCHANGED <<storeVars, runVars>>

\* SpecStep: the whole life of one step with few rejections
NextStep == RejectFew \/ SetInputCount \/ SetOutputCount \/ SealStep

SpecStep == Init /\ [][NextStep]_vars

CreateRun == \E body \in Submissions : create_run(body)

ListRuns == \E pipeline \in PipelineArgs, status \in StatusArgs,
               limit \in 1 .. MaxLimit, offset \in 0 .. MaxOffset :
               get_runs(pipeline, status, limit, offset)

ListSteps == \E step_type \in StepTypeArgs, name \in NameArgs,
                rate_gt \in RateArgs, rate_lt \in RateArgs,
                limit \in 1 .. MaxLimit, offset \in 0 .. MaxOffset :
                get_steps(step_type, name, rate_gt, rate_lt, limit, offset)

\* SpecStore: the API process serving ingestion and query requests
GetRun == \E id \in LookupIds : get_run_detail(id)

NextStore == CreateRun \/ ListRuns \/ ListSteps \/ GetRun \/ Reply

\* the steps of SpecStore's runs arrive sealed inside the submissions
InitAPI == Init /\ capture = "sample"

SpecStore == InitAPI /\ [][NextStore]_vars

\* the events recorded so far in the run: those of its sealed steps and those
\* of the step that is open
OpsOf(rec) == SumValues(rec.rejection_counts) + Len(rec.acceptances)
                + Len(rec.decisions) + (IF rec.input_count = None THEN 0 ELSE 1)

RunOps == OpsOf(to_dict) * (IF ended THEN 0 ELSE 1)
            + SumOver([i \in DOMAIN run_steps |-> OpsOf(StepRecord(i))], DOMAIN run_steps)

\* the blocks of the run entered again after it was left
Reentries == IF pc = "exited" /\ exits # <<>> THEN Len(exits) - 1 ELSE Len(exits)

Effort == RunOps + (step_name - 1) + Reentries

\* the flow is inside a step's block and has events left to record
InStep == pc = "step" /\ ~ended /\ Effort < MaxEffort

FlowReject == \E reason \in Reasons, draw \in BOOLEAN :
                 InStep /\ MayReject(reason, draw, MaxEffort) /\ reject(reason, draw)
                    /\ UNCHANGED <<storeVars, runVars>>

FlowAccept == InStep /\ accept(Len(acceptances) + 1)
                 /\ UNCHANGED <<storeVars, runVars>>

FlowDecide == InStep /\ decide("select_best", Len(acceptances))
                 /\ UNCHANGED <<storeVars, runVars>>

FlowSetInputCount == InStep /\ input_count = None /\ set_input_count(MaxCount)
                        /\ UNCHANGED <<storeVars, runVars>>

\* the step's block is left, normally or by an exception raised inside it
EndStep == \E exc \in {None} \cup {Some(m) : m \in StepFaults} :
              /\ pc = "step"
              /\ StepExit(exc)
              /\ pc' = IF exc = None THEN "body" ELSE "raising"
              /\ pending' = exc
              /\ seals' = Append(seals, [name |-> step_name, exc |-> exc,
                                         calls |-> calls, held |-> to_dict])
              /\ UNCHANGED <<storeVars, offline_mode, offline_dir, now,
                             self_run_id, run_status, run_error, run_started_at,
                             run_ended_at, begun, exits, sends, sync_log, sideVars>>

BeginStep ==
    /\ pc = "body"
    /\ Effort < MaxEffort
    /\ begin_step("sample")

\* the run's block is left: by the exception on its way out of a step, or
\* from the body, normally or by an exception raised there
ExitRun == \E exc \in {None} \cup {Some(m) : m \in StepFaults \cup BodyFaults},
              outcome \in Outcomes :
              /\ pc \in {"body", "raising"}
              /\ pc = "raising" => exc = pending
              /\ pc = "body" => exc \in {None} \cup {Some(m) : m \in BodyFaults}
              /\ Len(sends) < MaxSends
              /\ ~send_run(outcome) =>
                    Cardinality({i \in DOMAIN sends : ~sends[i].success}) < MaxFailures
              /\ RunExit(exc, outcome)

\* `with run:` once more on a run whose block was left
ReEnter ==
    /\ pc = "exited"
    /\ exits # <<>>
    /\ Len(exits) < MaxExits
    /\ Effort < MaxEffort
    /\ pc' = "body"
    /\ UNCHANGED <<stepVars, storeVars, offline_mode, offline_dir, now, pending,
                   self_run_id, run_status, run_error, run_started_at,
                   run_ended_at, begun, exits, sends, seals, sync_log, sideVars>>

BeginRun == \E id \in RunIds \ begun :
               pc = "exited" /\ begin_run(id)

Tick ==
    /\ now < MaxClock
    /\ now' = now + 1
    /\ UNCHANGED <<stepVars, storeVars, offline_mode, offline_dir, pc, pending,
                   self_run_id, run_status, run_error, run_started_at,
                   run_ended_at, begun, exits, sends, seals, sync_log, sideVars>>

SyncOffline == \E order \in Orders(DOMAIN offline_dir),
                  oks \in SUBSET (DOMAIN offline_dir) :
                  /\ pc \in {"body", "exited"}
                  /\ sync_log.calls < MaxSyncs
                  /\ sync_offline(order, oks)

\* a client with any of the three policies, its first run begun
InitSDK == InitStep /\ capture = "sample" /\ InitStore /\ InitRunWith(OfflineModes)

\* the steps of the flow that owns the run, up to the end of the run's block
RunFlow == FlowReject \/ FlowAccept \/ FlowDecide \/ FlowSetInputCount
              \/ EndStep \/ BeginStep \/ ExitRun

\* SpecRun: one run from its first step to its delivery.  The owning flow
\* does not stop inside the run's block: each of its steps returns, and the
\* send is bounded by its timeout.
NextRun == RunFlow \/ ReEnter

SpecRun == InitSDK /\ [][NextRun]_vars /\ WF_vars(RunFlow)

\* SpecDelivery: runs finalized against a Store that may not answer, and the
\* reconciliation of the retry area
NextDelivery == BeginRun \/ ExitRun \/ ReEnter \/ Tick \/ SyncOffline

\* a client with the default policy (buffer, xray.py:42) that has begun no
\* run yet; the runs of SpecDelivery open no step
InitBuffering == InitStep /\ capture = "sample" /\ InitStore
                    /\ InitXRay({"buffer"}) /\ NoRun

SpecDelivery == InitBuffering /\ [][NextDelivery]_vars

\* the strings a caller may hand over as offline_mode (XRay.__init__) and as
\* capture (Run.step): the documented names and a misspelt one
PolicyNames == OfflineModes \cup {"bufer"}
CaptureNames == CaptureModes \cup {"all"}

\* XRay(pipeline, offline_mode=name): __init__ stores the argument as given
InitSetup == InitStep /\ capture = "sample" /\ InitStore
                /\ InitXRay(PolicyNames) /\ NoRun

\* run.step(name, capture=mode): Step.__init__ stores the argument as given
SetupStep == \E mode \in CaptureNames :
                pc = "body" /\ Effort < MaxEffort /\ begin_step(mode)

\* SpecSetup: clients and steps set up with any name, and what reject and
\* the finalize make of it
NextSetup == BeginRun \/ SetupStep \/ FlowReject \/ EndStep \/ ExitRun

SpecSetup == InitSetup /\ [][NextSetup]_vars

\* the run's block is left while the flow still holds a step that it opened
\* with run.step(...) and whose block it has not left
ExitRunHoldingStep == \E outcome \in Outcomes :
                         /\ pc = "step"
                         /\ ~ended
                         /\ Len(sends) < MaxSends
                         /\ RunExit(None, outcome)

\* the block of that step is left after the run's block: Step.__exit__ calls
\* Run._add_step on the run that has ended
LateEndStep ==
    /\ pc = "exited"
    /\ exits # <<>>
    /\ StepExit(None)
    /\ seals' = Append(seals, [name |-> step_name, exc |-> None,
                               calls |-> calls, held |-> to_dict])
    /\ UNCHANGED <<storeVars, offline_mode, offline_dir, now, pc, pending,
                   self_run_id, run_status, run_error, run_started_at,
                   run_ended_at, begun, exits, sends, sync_log, sideVars>>

\* SpecLate: one run whose steps need not be nested in the run's block
NextLate == FlowReject \/ FlowAccept \/ EndStep \/ BeginStep \/ ExitRun
               \/ ExitRunHoldingStep \/ LateEndStep

SpecLate == InitSDK /\ [][NextLate]_vars

\* XRay.run(input, run_id) with a run_id of the caller's choice, which may be
\* one that an earlier run of this client had
BeginRunNamed == \E id \in RunIds :
                    pc = "exited" /\ Len(sends) < MaxSends /\ begin_run(id)

\* SpecBuffer: the runs of one client with the default policy, finalized
\* one after the other against a Store that may not answer
NextBuffer == BeginRunNamed \/ ExitRun \/ Tick

SpecBuffer == InitBuffering /\ [][NextBuffer]_vars

\* steps begun in one run while calls of Run.step may overlap
MaxNested == 3

\* the Step object the flow is working on, as it stands
StepState ==
    [capture |-> capture, rejection_counts |-> rejection_counts,
     rejection_samples |-> rejection_samples, sample_keys |-> sample_keys,
     input_count |-> input_count, output_count |-> output_count,
     step_name |-> step_name, step_error |-> step_error,
     acceptances |-> acceptances, decisions |-> decisions,
     calls |-> calls, skipped |-> skipped, late |-> late]

\* the steps begun so far in the run: those sealed, the one set aside and
\* the one the flow is working on
StepsStarted == Len(run_steps) + (IF outer # None THEN 1 ELSE 0)
                   + (IF pc = "step" THEN 1 ELSE 0)

\* Run.step(name, step_type, capture) called in the run's body or inside the
\* block of a step that is open, which is set aside: Step.__init__, and the
\* flow enters the new step's block.  Steps are named by the ordinal of
\* their beginning.
open_step(mode) ==
    /\ pc \in {"body", "step"}
    /\ pc = "step" => (~ended /\ outer = None)
    /\ outer' = IF pc = "step" THEN Some(StepState) ELSE outer
    /\ capture' = mode
    /\ rejection_counts' = EmptyDict
    /\ rejection_samples' = EmptyDict
    /\ sample_keys' = <<>>
    /\ input_count' = None
    /\ output_count' = None
    /\ ended' = FALSE
    /\ step_name' = StepsStarted + 1
    /\ step_error' = None
    /\ acceptances' = <<>>
    /\ decisions' = <<>>
    /\ run_steps' = StepRecords
    /\ calls' = [r \in Reasons |-> 0]
    /\ skipped' = 0
    /\ late' = 0
    /\ pc' = "step"
    /\ UNCHANGED <<storeVars, offline_mode, offline_dir, now, pending,
                   self_run_id, run_status, run_error, run_started_at,
                   run_ended_at, begun, exits, sends, seals, sync_log,
                   syncers, saving, resent>>

\* the flow turns to the step it had set aside: from a step whose block it
\* has left (the inner one of two nested steps), or from one that is still
\* open, which is set aside in its turn (two steps that overlap)
turn_to_outer ==
    LET o == outer[1]
    IN  /\ outer # None
        /\ pc \in {"body", "step"}
        /\ outer' = IF pc = "step" /\ ~ended THEN Some(StepState) ELSE None
        /\ capture' = o.capture
        /\ rejection_counts' = o.rejection_counts
        /\ rejection_samples' = o.rejection_samples
        /\ sample_keys' = o.sample_keys
        /\ input_count' = o.input_count
        /\ output_count' = o.output_count
        /\ ended' = FALSE
        /\ step_name' = o.step_name
        /\ step_error' = o.step_error
        /\ acceptances' = o.acceptances
        /\ decisions' = o.decisions
        /\ run_steps' = StepRecords
        /\ calls' = o.calls
        /\ skipped' = o.skipped
        /\ late' = o.late
        /\ pc' = "step"
        /\ UNCHANGED <<storeVars, offline_mode, offline_dir, now, pending,
                       self_run_id, run_status, run_error, run_started_at,
                       run_ended_at, begun, exits, sends, seals, sync_log,
                       syncers, saving, resent>>

OpenStep == StepsStarted < MaxNested /\ open_step("sample")

\* the block of the step the flow works on is left normally
EndStepNormally == EndStep /\ pending' = None

\* the run's block is left when every step begun in it has been left
ExitRunSealed == pc = "body" /\ outer = None /\ ExitRun

\* SpecNested: one run whose steps may be nested in one another or overlap
NextNested == OpenStep \/ turn_to_outer \/ FlowReject \/ FlowAccept
                 \/ EndStepNormally \/ ExitRunSealed

SpecNested == InitSDK /\ [][NextNested]_vars

\* the run's block is left from its body while reconciliations may be under way
ExitRunSaving == \E exc \in {None} \cup {Some(m) : m \in BodyFaults},
                    outcome \in Outcomes :
                    /\ pc = "body"
                    /\ Len(sends) < MaxSaves
                    /\ RunExitOpening(exc, outcome)

SyncScan == \E s \in Syncers, order \in Orders(DOMAIN offline_dir) :
               sync_scan(s, order)
SyncLoad == \E s \in Syncers : sync_load(s)
SyncSend == \E s \in Syncers, outcome \in Outcomes : sync_send(s, outcome)
SyncUnlink == \E s \in Syncers : sync_unlink(s)
SyncReturn == \E s \in Syncers : sync_return(s)

\* SpecSync: flows that call sync_offline, each step of theirs interleaved
\* with the runs that the client's other flow begins, finalizes and buffers
NextSync == BeginRunNamed \/ ExitRunSaving \/ save_close \/ Tick
               \/ SyncScan \/ SyncLoad \/ SyncSend \/ SyncUnlink \/ SyncReturn

SpecSync == InitBuffering /\ [][NextSync]_vars


\* ===================================================================== claims
\* number of entries of a list of rejections that carry reason r
CountReason(seq, r) == Cardinality({i \in DOMAIN seq : seq[i].reason = r})

Min(a, b) == IF a < b THEN a ELSE b

\* the rejection recorded for the n-th reject call made with reason r
RejectionOf(r, n) == [item_id |-> n, reason |-> r]

\* C1: in every state reached by reject calls, under every capture mode, the
\* sum of the rejection counts is at least the number of sampled rejections,
\* on the live step and on every step record appended to the run.
C1_CountsCoverSamples ==
    /\ SumValues(rejection_counts) >= Len(sampled_rejections)
    /\ \A i \in DOMAIN run_steps :
          SumValues(StepRecord(i).rejection_counts)
             >= Len(StepRecord(i).sampled_rejections)

C1_Witness ==
    /\ capture = "sample"
    /\ run_steps # <<>>
    /\ Len(run_steps[1].sampled_rejections) > MIN_SAMPLES_PER_REASON
    /\ SumValues(rejection_counts) > Len(sampled_rejections)

\* C2: no reason ever has more than MAX_SAMPLES_PER_REASON sampled rejections,
\* and once a reason holds that many, _should_sample answers false for it
\* whatever the random source yields and a further reject retains nothing.
C2_SamplesCapped ==
    \A r \in Reasons :
       /\ CountReason(sampled_rejections, r) <= MAX_SAMPLES_PER_REASON
       /\ \A i \in DOMAIN run_steps :
             CountReason(run_steps[i].sampled_rejections, r) <= MAX_SAMPLES_PER_REASON
       /\ CountReason(sampled_rejections, r) >= MAX_SAMPLES_PER_REASON =>
             \A draw \in BOOLEAN :
                /\ ~should_sample(rejection_samples, r, draw)
                /\ SamplesAfterReject(capture, rejection_samples, r,
                                      RejectionOf(r, calls[r] + 1), draw)
                      = rejection_samples

C2_Witness ==
    \E r \in Reasons :
       /\ capture = "sample"
       /\ calls[r] > MAX_SAMPLES_PER_REASON
       /\ CountReason(sampled_rejections, r) = MAX_SAMPLES_PER_REASON

\* C3 (as claimed): with capture = full every rejected item has its own entry
\* in sampled_rejections, so each reason has as many entries as rejections,
\* also past MAX_SAMPLES_PER_REASON rejections of one reason.
C3_FullKeepsEveryRejection ==
    capture = "full" =>
       \A r \in Reasons :
          /\ CountReason(sampled_rejections, r) = calls[r]
          /\ \A n \in 1 .. calls[r] :
                \E i \in DOMAIN sampled_rejections :
                   sampled_rejections[i] = RejectionOf(r, n)

\* C4: with capture = none sampled_rejections stays empty (live and sealed)
\* and rejection_counts is non-empty as soon as one reject call was made.
C4_NoneKeepsNoSample ==
    capture = "none" =>
       /\ sampled_rejections = <<>>
       /\ \A i \in DOMAIN run_steps : StepRecord(i).sampled_rejections = <<>>
       /\ TotalCalls > 0 => DOMAIN rejection_counts # {}
       /\ \A i \in DOMAIN run_steps :
             TotalCalls > 0 => DOMAIN StepRecord(i).rejection_counts # {}

C4_Witness ==
    /\ capture = "none"
    /\ TotalCalls > MIN_SAMPLES_PER_REASON
    /\ run_steps # <<>>

\* C5: rejection_counts[r] is exactly the number of reject calls made with
\* reason r (a reason never rejected has no entry), in every capture mode and
\* whatever was sampled, also past MAX_SAMPLES_PER_REASON.
C5_CountsExact ==
    \A r \in Reasons :
       /\ Get(rejection_counts, r, 0) = calls[r]
       /\ r \in DOMAIN rejection_counts <=> calls[r] > 0

C5_Witness ==
    \E r \in Reasons :
       /\ capture = "full"
       /\ calls[r] > MAX_SAMPLES_PER_REASON
       /\ rejection_counts[r] > Len(rejection_samples[r])

\* C6: with capture = sample, after n rejections of reason r the retained
\* samples of r number at least min(n, MIN_SAMPLES_PER_REASON) and at most
\* min(n, MAX_SAMPLES_PER_REASON), and the first MIN_SAMPLES_PER_REASON
\* rejections of r are the first retained ones, for every random outcome.
C6_SampleBounds ==
    capture = "sample" =>
       \A r \in Reasons :
          LET kept == Get(rejection_samples, r, <<>>)
          IN  /\ Len(kept) >= Min(calls[r], MIN_SAMPLES_PER_REASON)
              /\ Len(kept) <= Min(calls[r], MAX_SAMPLES_PER_REASON)
              /\ CountReason(sampled_rejections, r) = Len(kept)
              /\ \A n \in 1 .. Min(calls[r], MIN_SAMPLES_PER_REASON) :
                    kept[n] = RejectionOf(r, n)

C6_Witness ==
    \E r \in Reasons :
       /\ capture = "sample"
       /\ calls[r] > MIN_SAMPLES_PER_REASON
       /\ Len(rejection_samples[r]) = MIN_SAMPLES_PER_REASON

\* C7: the rejection rate of a sealed step is None when either count is
\* unset, 0 when input_count is 0, and otherwise the rate q with
\* q * input_count = input_count - output_count; 100 in and 40 out give 0.6.
C7_RejectionRate ==
    \A i \in DOMAIN run_steps :
       LET ic   == run_steps[i].input_count
           oc   == run_steps[i].output_count
           rate == run_steps[i].rejection_rate
       IN  IF ic = None \/ oc = None THEN rate = None
           ELSE IF ic[1] = 0 THEN rate = <<0, 1>>
           ELSE /\ rate # None
                /\ rate[2] > 0
                /\ rate[1] * ic[1] = (ic[1] - oc[1]) * rate[2]
                /\ (ic[1] = 100 /\ oc[1] = 40) => rate = <<3, 5>>

C7_Witness ==
    /\ run_steps # <<>>
    /\ run_steps[1].input_count = Some(100)
    /\ run_steps[1].output_count = Some(40)
    /\ run_steps[1].rejection_rate = <<3, 5>>


\* concatenation of a list of lists
RECURSIVE ConcatAll(_)
ConcatAll(ss) == IF ss = <<>> THEN <<>> ELSE Head(ss) \o ConcatAll(Tail(ss))

\* number of pages of size limit that hold n items
PageCount(n, limit) == (n + limit - 1) \div limit

\* a limit that no collection of the model exceeds
Unlimited == 1000

\* C8: however often and in whatever order submissions for one run_id are
\* applied, the Store holds exactly one record for it, and that record is as
\* a whole the (dumped) content of the submission applied last; the records
\* of other identifiers are those of their own last submissions.
C8_LastWriteWins ==
    /\ DOMAIN RUNS = DOMAIN last_applied
    /\ DOMAIN RUNS = {run_keys[i] : i \in DOMAIN run_keys}
    /\ Len(run_keys) = Cardinality(DOMAIN RUNS)
    /\ \A id \in DOMAIN RUNS :
          /\ RUNS[id] = model_dump(last_applied[id])
          /\ RUNS[id].run_id = id
          /\ get_run(RUNS, id) = model_dump(last_applied[id])

C8_Witness ==
    \E id \in overwritten :
       /\ DOMAIN RUNS # {id}
       /\ RUNS[id].status = "failed"
       /\ RUNS[id].steps # <<>>

\* The pagination contract of C9: in every Store state, for
\* every filter combination and every limit >= 1, the pages at offsets 0,
\* limit, 2*limit, ... are each the full filtered, ordered collection with
\* offset items dropped and at most limit taken, their concatenation is that
\* collection with every element once, and each page reports its size as total.
C9_RunsPagination ==
    \A pipeline \in PipelineArgs, status \in StatusArgs, limit \in 1 .. (MaxLimit + 1) :
       LET whole == list_runs(RUNS, run_keys, pipeline, status, Unlimited, 0)
           page(k) == list_runs(RUNS, run_keys, pipeline, status, limit, k * limit)
       IN  /\ ~whole.error
           /\ \A k \in 0 .. PageCount(whole.total, limit) :
                 /\ ~page(k).error
                 /\ page(k).total = Len(whole.runs)
                 /\ page(k).runs = Slice(whole.runs, k * limit, limit)
           /\ ConcatAll([k \in 1 .. PageCount(whole.total, limit) |-> page(k - 1).runs])
                 = whole.runs
           /\ \A i, j \in DOMAIN whole.runs :
                 whole.runs[i].run_id = whole.runs[j].run_id => i = j

C9_StepsPagination ==
    \A step_type \in StepTypeArgs, name \in NameArgs,
       rate_gt \in RateArgs, rate_lt \in RateArgs, limit \in 1 .. (MaxLimit + 1) :
       LET whole == list_steps(RUNS, run_keys, step_type, name, rate_gt, rate_lt,
                               Unlimited, 0)
           page(k) == list_steps(RUNS, run_keys, step_type, name, rate_gt, rate_lt,
                                 limit, k * limit)
       IN  /\ ~whole.error
           /\ \A k \in 0 .. PageCount(whole.total, limit) :
                 /\ ~page(k).error
                 /\ page(k).total = Len(whole.steps)
                 /\ page(k).steps = Slice(whole.steps, k * limit, limit)
           /\ ConcatAll([k \in 1 .. PageCount(whole.total, limit) |-> page(k - 1).steps])
                 = whole.steps

\* C9 (as claimed): the pagination contract holds for listRuns and for
\* listSteps in every Store state.
C9_Pagination == C9_RunsPagination /\ C9_StepsPagination

\* C10 (as claimed): listRuns returns exactly the stored runs whose pipeline
\* equals the pipeline filter and whose status equals the status filter (each
\* when given), once each, and total is their number whatever the page asked.
C10_RunsFilter ==
    \A pipeline \in PipelineArgs, status \in StatusArgs :
       LET matching == {id \in DOMAIN RUNS :
                           /\ Truthy(pipeline) => RUNS[id].pipeline = pipeline[1]
                           /\ Truthy(status) => RUNS[id].status = status[1]}
           whole == list_runs(RUNS, run_keys, pipeline, status, Unlimited, 0)
       IN  /\ ~whole.error
           /\ {whole.runs[i].run_id : i \in DOMAIN whole.runs} = matching
           /\ Len(whole.runs) = Cardinality(matching)
           /\ \A i \in DOMAIN whole.runs :
                 whole.runs[i] = RunSummary(RUNS[whole.runs[i].run_id])
           /\ \A limit \in 1 .. MaxLimit, offset \in 0 .. MaxOffset :
                 LET res == list_runs(RUNS, run_keys, pipeline, status, limit, offset)
                 IN  ~res.error /\ res.total = Cardinality(matching)

\* the thresholds the rate filters of GET /steps accept that the claim names
\* (0 and 1) or that a stored step's rate equals (0, 1/2, 1)
Thresholds == RateArgs \cup {<<1, 1>>}

\* every stored step with its run, in the order list_steps walks them
StoredSteps == list_steps(RUNS, run_keys, None, None, None, None, Unlimited, 0).steps

\* a > b on rates that are set
RateAbove(a, b) == a[1] * b[2] > b[1] * a[2]

\* C11: in every Store state and for every threshold t, listSteps with
\* rejection_rate_gt = t returns exactly the stored steps whose rate is set and
\* greater than t, with rejection_rate_lt = t exactly those whose rate is set
\* and less than t, and with both exactly those that pass both; a step with an
\* unset rate, or with a rate equal to the threshold, is in none of them.
C11_StrictRateFilters ==
    \A gt \in Thresholds \cup {None}, lt \in Thresholds \cup {None} :
       LET res == list_steps(RUNS, run_keys, None, None, gt, lt, Unlimited, 0)
           matches(step) ==
              /\ gt # None => (step.rejection_rate # None
                                 /\ RateAbove(step.rejection_rate, gt))
              /\ lt # None => (step.rejection_rate # None
                                 /\ RateAbove(lt, step.rejection_rate))
       IN  /\ ~res.error
           /\ res.steps = SelectSeq(StoredSteps, matches)
           /\ res.total = Len(res.steps)
           /\ (gt # None \/ lt # None) =>
                 \A i \in DOMAIN res.steps :
                    /\ res.steps[i].rejection_rate # None
                    /\ res.steps[i].rejection_rate # gt
                    /\ res.steps[i].rejection_rate # lt

\* a GET /steps with rejection_rate_gt = 1/2 has just been answered from a
\* Store that holds a step with an unset rate and a step with rate 1/2, and
\* the answer has neither while it has a step with a greater rate
C11_Witness ==
    /\ response.op = "list_steps"
    /\ \E i \in DOMAIN StoredSteps : StoredSteps[i].rejection_rate = None
    /\ \E i \in DOMAIN StoredSteps : StoredSteps[i].rejection_rate = <<1, 2>>
    /\ response.result
          = list_steps(RUNS, run_keys, None, None, <<1, 2>>, None, MaxLimit, 0)
    /\ response.result.total > 0
    /\ response.result.total < Len(StoredSteps)
    /\ \A i \in DOMAIN response.result.steps :
          RateAbove(response.result.steps[i].rejection_rate, <<1, 2>>)

\* the call of Run._send that the step just taken made
Sent == sends'[Len(sends')]
JustSent == Len(sends') = Len(sends) + 1

\* C12 (as claimed): every record handed to Delivery was finalized: its status
\* is failed and its error the fault's message when the run's block was left
\* by a fault, completed with no error when it was left normally, and its end
\* time and duration are set; status running is never delivered.
C12_FinalStatus ==
    \A i \in DOMAIN sends :
       LET s == sends[i]
       IN  /\ s.record.status \in {"completed", "failed"}
           /\ s.record.ended_at # None
           /\ s.record.duration_ms # None
           /\ s.exc # None => (s.record.status = "failed" /\ s.record.error = s.exc)
           /\ s.exc = None => (s.record.status = "completed" /\ s.record.error = None)

\* C13 (as claimed): Delivery is invoked exactly once for every run: never
\* more than once, and once as soon as the run's block has been left.
C13_DeliveredOnce ==
    \A id \in RunIds :
       LET n == Cardinality({i \in DOMAIN sends : sends[i].record.run_id = id})
       IN  /\ n <= 1
           /\ (id = self_run_id /\ pc = "exited") => n = 1

\* C14: whenever a finalize under the buffer policy finds the send failed, it
\* raises nothing and the retry area then holds a document, under the name
\* built for this save, that loads back to the full run record, steps included.
C14_BufferPersists ==
    [][(JustSent /\ Sent.mode = "buffer" /\ ~Sent.success) =>
          /\ ~Sent.raised
          /\ Sent.file = Some(FileName(Sent.record.run_id, now))
          /\ Sent.file[1] \in DOMAIN offline_dir'
          /\ json_load(offline_dir'[Sent.file[1]]) = Sent.record
          /\ Sent.record.steps = StepRecords
          /\ \A f \in DOMAIN offline_dir : f \in DOMAIN offline_dir'
          /\ RUNS' = RUNS]_vars

C14_Witness ==
    \E i \in DOMAIN sends :
       /\ sends[i].mode = "buffer"
       /\ ~sends[i].success
       /\ Len(sends[i].record.steps) >= 2
       /\ sends[i].record.steps[1].acceptances # <<>>
       /\ sends[i].record.steps[2].error # None
       /\ sends[i].file[1] \in DOMAIN offline_dir

C16_RaisedIffStrict ==
    /\ \A i \in DOMAIN sends :
          /\ sends[i].raised <=> (sends[i].mode = "strict" /\ ~sends[i].success)
          /\ sends[i].raised => sends[i].file = None
          /\ sends[i].mode \in {"buffer", "drop"} => ~sends[i].raised
    /\ offline_mode = "strict" => offline_dir = EmptyDict

C16_Witness ==
    /\ \E i \in DOMAIN sends :
          sends[i].mode = "strict" /\ ~sends[i].success /\ sends[i].raised
    /\ \E i \in DOMAIN sends : sends[i].mode = "strict" /\ sends[i].success

\* C17 (as claimed): when sync_offline returns, the retry area holds exactly
\* the scanned documents whose resend failed, the record of every document it
\* removed is in the Store, synced is the number of documents removed and
\* synced + failed the number of documents scanned.
C17_Reconciliation ==
    [][sync_log'.calls = sync_log.calls + 1 =>
          LET scanned == DOMAIN offline_dir
              failed  == scanned \ sync_log'.oks
              removed == scanned \ DOMAIN offline_dir'
          IN  /\ sync_log'.scanned = offline_dir
              /\ DOMAIN offline_dir' = failed
              /\ \A f \in failed : offline_dir'[f] = offline_dir[f]
              /\ \A f \in removed :
                    LET rec == json_load(offline_dir[f])
                    IN  /\ rec.run_id \in DOMAIN RUNS'
                        /\ RUNS'[rec.run_id] = model_dump(rec)
              /\ sync_log'.result.synced = Cardinality(removed)
              /\ sync_log'.result.synced + sync_log'.result.failed
                    = Cardinality(scanned)]_vars

\* the record a sealed step must have left in the run: what the step held
\* when its block was left, with the fault's message as its error
Sealed(k) ==
    [seals[k].held EXCEPT !.error = IF seals[k].exc # None THEN seals[k].exc ELSE @]

\* C18: a run that was begun gets a delivery attempt, whether its flow leaves
\* the run's block normally or by a fault raised in a step or in the body; and
\* every delivered record carries, in order, all the steps sealed before the
\* run's block was left, the step that faulted among them.
C18_AlwaysDelivered ==
    /\ (sends = <<>>) ~> (sends # <<>>)
    /\ [](\A i \in DOMAIN sends :
             /\ Len(sends[i].record.steps) = sends[i].sealed
             /\ \A k \in 1 .. sends[i].sealed : sends[i].record.steps[k] = Sealed(k)
             /\ \A k \in 1 .. sends[i].sealed :
                   seals[k].exc # None => sends[i].record.steps[k].error = seals[k].exc)
    /\ [](pc = "exited" => Len(sends) = Len(exits))

C18_Witness ==
    \E i \in DOMAIN sends :
       /\ sends[i].exc = Some("boom")
       /\ sends[i].record.status = "failed"
       /\ Len(sends[i].record.steps) = 2
       /\ sends[i].record.steps[1].error = None
       /\ sends[i].record.steps[1].rejection_counts # EmptyDict
       /\ sends[i].record.steps[2].error = Some("boom")

\* C19: every step whose block was left is in the run's step list exactly
\* once, in order, with the counts, samples, acceptances and decisions it held
\* at that moment; its error is the fault's message when a fault left the
\* block and is unset when the block ended normally.
C19_FaultedStepSealed ==
    /\ Len(run_steps) = Len(seals)
    /\ \A k \in DOMAIN seals :
          LET rec == StepRecord(k)
              h   == seals[k]
          IN  /\ rec = Sealed(k)
              /\ rec.name = h.name
              /\ \A r \in Reasons : Get(rec.rejection_counts, r, 0) = h.calls[r]
              /\ rec.error = h.exc
              /\ Cardinality({j \in DOMAIN run_steps : run_steps[j].name = h.name}) = 1

C19_Witness ==
    \E k \in DOMAIN run_steps :
       /\ seals[k].exc = Some("boom")
       /\ run_steps[k].error = Some("boom")
       /\ run_steps[k].rejection_counts # EmptyDict
       /\ run_steps[k].sampled_rejections # <<>>
       /\ run_steps[k].acceptances # <<>>

\* the steps a submission carries
StepsSubmitted(body) == IF "steps" \in DOMAIN body THEN body.steps ELSE <<>>

\* C20: the answer of a run detail lookup is NotFound (404) exactly when no
\* record with that identifier was inserted, and otherwise it is the stored
\* run under that identifier, whole, with all the steps of the submission
\* that was inserted last; the same holds of the storage lookup for every
\* identifier in every Store state.
C20_RunDetail ==
    /\ \A id \in LookupIds :
          /\ get_run(RUNS, id) = None <=> id \notin DOMAIN last_applied
          /\ id \in DOMAIN last_applied =>
                /\ get_run(RUNS, id) = RUNS[id]
                /\ get_run(RUNS, id).steps = StepsSubmitted(last_applied[id])
    /\ response.op = "get_run" =>
          /\ response.status = 404 <=> response.run_id \notin DOMAIN last_applied
          /\ response.status \in {200, 404}
          /\ response.status = 200 =>
                /\ response.run = RUNS[response.run_id]
                /\ response.run.run_id = response.run_id
                /\ response.run.steps = StepsSubmitted(last_applied[response.run_id])

\* a lookup has just answered with a run of two steps that had been
\* overwritten, while another identifier is not in the Store
C20_Witness ==
    /\ response.op = "get_run"
    /\ response.status = 200
    /\ Len(response.run.steps) = 2
    /\ response.run_id \in overwritten
    /\ \E id \in RunIds : id \notin DOMAIN RUNS

\* a lookup of an identifier that was never inserted has just answered 404
\* from a Store that is not empty
C20_WitnessNotFound ==
    /\ response.op = "get_run"
    /\ response.status = 404
    /\ RUNS # EmptyDict

\* C21 (as claimed): a client exists only with one of the policies buffer,
\* drop, strict and a step only with one of the capture modes full, sample,
\* none: any other name was rejected at setup, so no reject call and no
\* finalize ever runs under one.
C21_ConfigurationRejected ==
    /\ offline_mode \in OfflineModes
    /\ capture \in CaptureModes
    /\ \A i \in DOMAIN sends : sends[i].mode \in OfflineModes

\* the place of a run_id in the insertion order of RUNS
KeyPos(id) == CHOOSE i \in DOMAIN run_keys : run_keys[i] = id

\* a list of run summaries is in descending order of started_at, with runs of
\* equal started_at in the order of their insertion into the Store
OrderedRuns(rs) ==
    \A i, j \in DOMAIN rs :
       i < j => /\ rs[i].started_at[1] >= rs[j].started_at[1]
                /\ rs[i].started_at[1] = rs[j].started_at[1]
                      => KeyPos(rs[i].run_id) < KeyPos(rs[j].run_id)

C22_WitnessDescending ==
    /\ response.op = "list_runs"
    /\ ~response.result.error
    /\ Len(response.result.runs) = 2
    /\ response.result.runs[1].started_at[1] > response.result.runs[2].started_at[1]
    /\ KeyPos(response.result.runs[1].run_id) = 2

\* the number of steps stored in the first k runs of the Store
StepsBefore(k) ==
    SumOver([j \in 1 .. k |-> Len(RUNS[run_keys[j]].steps)], 1 .. k)

\* two characters are the same letter, whatever their case
SameLetter(a, b) == a = b \/ LowerChar(a) = b \/ a = LowerChar(b)

\* needle occurs in hay when case is ignored
OccursIgnoringCase(hay, needle) ==
    \E k \in 0 .. (Len(hay) - Len(needle)) :
       \A j \in 1 .. Len(needle) : SameLetter(hay[k + j], needle[j])

\* the step types and the name fragments asked for
TypeFilters == {"filter", "select", "Filter"}
NameFilters == {<<"f">>, <<"S", "E">>, <<"i", "s">>, <<"F", "i">>}

\* C23: in every Store state listSteps without filters returns every step of
\* every stored run once, runs in Store order and steps in run order, each
\* with its run's identifier and pipeline, and total is the sum of the runs'
\* step counts; with a type filter it returns exactly the steps whose type
\* equals the filter, and with a name filter exactly the steps whose name
\* contains the filter when case is ignored, both in that same order.
C23_StepsFlattened ==
    /\ Len(StoredSteps) = StepsBefore(Len(run_keys))
    /\ list_steps(RUNS, run_keys, None, None, None, None, Unlimited, 0).total
          = StepsBefore(Len(run_keys))
    /\ \A k \in DOMAIN run_keys :
          LET run == RUNS[run_keys[k]]
          IN  \A i \in DOMAIN run.steps :
                 LET e == StoredSteps[StepsBefore(k - 1) + i]
                 IN  /\ e.run_id = run_keys[k]
                     /\ e.pipeline = run.pipeline
                     /\ e.step_name = run.steps[i].name
                     /\ e.step_type = run.steps[i].step_type
                     /\ e.rejection_rate = run.steps[i].rejection_rate
    /\ \A t \in TypeFilters :
          LET res == list_steps(RUNS, run_keys, Some(t), None, None, None, Unlimited, 0)
              matches(step) == step.step_type = Some(t)
          IN  /\ res.steps = SelectSeq(StoredSteps, matches)
              /\ res.total = Len(res.steps)
    /\ \A n \in NameFilters :
          LET res == list_steps(RUNS, run_keys, None, Some(n), None, None, Unlimited, 0)
              matches(step) == OccursIgnoringCase(step.step_name, n)
          IN  /\ res.steps = SelectSeq(StoredSteps, matches)
              /\ res.total = Len(res.steps)

\* GET /steps has just answered from a Store of two runs with three steps in
\* all, and the name filter "SE" finds the steps named "se" of both runs
C23_Witness ==
    /\ response.op = "list_steps"
    /\ Len(run_keys) = 2
    /\ Len(StoredSteps) = 3
    /\ StoredSteps[1].run_id = "r2"
    /\ response.result
          = list_steps(RUNS, run_keys, None, Some(<<"S", "E">>), None, None, MaxLimit, 0)
    /\ response.result.total = 2
    /\ response.result.steps[1].run_id # response.result.steps[2].run_id

\* C24 (as claimed): once the run's block has been left, nothing changes the
\* run's record any more: its status, error, end time and step sequence stay
\* as they were handed to Delivery, and no step is attached to the run.
C24_RunImmutable ==
    [][exits # <<>> =>
          /\ StepRecords' = StepRecords
          /\ Len(run_steps') = Len(sends[Len(sends)].record.steps)
          /\ run_status' = run_status
          /\ run_error' = run_error
          /\ run_ended_at' = run_ended_at]_vars

\* C25 (as claimed): once a step's block has been left, no call on the step
\* object changes the step record that was appended to the run: its counts,
\* samples, acceptances, decisions and rate stay as they were at the end.
C25_StepImmutable ==
    [][(ended /\ ended') =>
          \A i \in DOMAIN run_steps : StepRecord(i)' = StepRecord(i)]_vars

\* C26 (as claimed): a record that is buffered gets a document of its own:
\* the name built for a save is the name of no document that the retry area
\* holds already, so every document buffered before is still there unchanged.
C26_DocumentsUnique ==
    [][(JustSent /\ Sent.file # None) =>
          /\ Sent.file[1] \notin DOMAIN offline_dir
          /\ \A f \in DOMAIN offline_dir :
                f \in DOMAIN offline_dir' /\ offline_dir'[f] = offline_dir[f]]_vars

\* C27 (as claimed): under every interleaving of the steps of sync_offline
\* with runs being finalized and buffered and with another sync_offline, a
\* document leaves the retry area only when the resend of that very document
\* has succeeded, a save that completes leaves its document in the retry
\* area, every record in the Store is a whole record that a finalize
\* produced, and no step of sync_offline changes a run or its flow.
C27_SyncSafe ==
    [][/\ \A f \in DOMAIN offline_dir \ DOMAIN offline_dir' :
             <<f, offline_dir[f]>> \in resent
       /\ (saving # None /\ saving' = None) =>
             /\ saving[1].file \in DOMAIN offline_dir'
             /\ offline_dir'[saving[1].file] = json_dump(saving[1].data)
       /\ \A id \in DOMAIN RUNS' :
             \E i \in DOMAIN sends' : RUNS'[id] = model_dump(sends'[i].record)
       /\ syncers' # syncers => (ownerVars' = ownerVars /\ stepVars' = stepVars)]_vars

\* every step of every run the Store holds, read off RUNS itself: the n-th
\* entry is a step of the run in whose range of positions n falls
FlatSteps ==
    [n \in 1 .. StepsBefore(Len(run_keys)) |->
        LET k   == CHOOSE j \in DOMAIN run_keys :
                      StepsBefore(j - 1) < n /\ n <= StepsBefore(j)
            run == RUNS[run_keys[k]]
            st  == run.steps[n - StepsBefore(k - 1)]
        IN  [run_id |-> run.run_id, pipeline |-> run.pipeline,
             step_name |-> st.name, step_type |-> st.step_type,
             rejection_rate |-> st.rejection_rate]]

\* a page: offset items dropped, at most limit taken
IsPageOf(page, whole) ==
    \E limit \in 1 .. MaxLimit, offset \in 0 .. MaxOffset :
       page = Slice(whole, offset, limit)

\* C28: in whatever order inserts and queries are handled, the answer of
\* listSteps is, for some filters and page, what the Store's whole content
\* at the moment of the answer gives: total counts every matching step of
\* every stored run and the page is cut from exactly those; the answer of
\* listRuns shows stored runs as they are, each with the count of all its
\* steps, total counting every matching run; a failure of listRuns is that
\* of the Store content as well.  No run shows in part.
C28_PointInTime ==
    /\ response.op = "list_steps" =>
          \E step_type \in StepTypeArgs, name \in NameArgs,
             gt \in RateArgs, lt \in RateArgs :
             LET matches(e) ==
                    /\ Truthy(step_type) => e.step_type = step_type
                    /\ TruthyChars(name) => OccursIgnoringCase(e.step_name, name[1])
                    /\ gt # None => (e.rejection_rate # None
                                       /\ RateAbove(e.rejection_rate, gt))
                    /\ lt # None => (e.rejection_rate # None
                                       /\ RateAbove(lt, e.rejection_rate))
                 whole == SelectSeq(FlatSteps, matches)
             IN  /\ response.result.total = Len(whole)
                 /\ IsPageOf(response.result.steps, whole)
    /\ (response.op = "list_runs" /\ ~response.result.error) =>
          /\ \A i \in DOMAIN response.result.runs :
                LET e == response.result.runs[i]
                IN  /\ e.run_id \in DOMAIN RUNS
                    /\ e.pipeline = RUNS[e.run_id].pipeline
                    /\ e.status = RUNS[e.run_id].status
                    /\ e.started_at = RUNS[e.run_id].started_at
                    /\ e.step_count = Len(RUNS[e.run_id].steps)
          /\ \E pipeline \in PipelineArgs, status \in StatusArgs :
                LET matching == {id \in DOMAIN RUNS :
                                    /\ Truthy(pipeline) => RUNS[id].pipeline = pipeline[1]
                                    /\ Truthy(status) => RUNS[id].status = status[1]}
                IN  /\ response.result.total = Cardinality(matching)
                    /\ {response.result.runs[i].run_id : i \in DOMAIN response.result.runs}
                          \subseteq matching
                    /\ \E limit \in 1 .. MaxLimit, offset \in 0 .. MaxOffset :
                          Len(response.result.runs)
                             = Min(limit, IF Cardinality(matching) > offset
                                          THEN Cardinality(matching) - offset ELSE 0)
    /\ (response.op = "list_runs" /\ response.result.error) =>
          \E id \in DOMAIN RUNS : RUNS[id].started_at = None /\ DOMAIN RUNS # {id}

\* GET /steps has just answered from a Store in which a run was overwritten
\* by a submission with two steps, after another run was inserted, and the
\* answer counts all three steps
C28_Witness ==
    /\ response.op = "list_steps"
    /\ overwritten # {}
    /\ Len(run_keys) = 2
    /\ \E id \in overwritten : Len(RUNS[id].steps) = 2
    /\ response.result.total = 3
    /\ Len(response.result.steps) = 2

\* the request that the step just taken handled was a query
Queried == response = NoResponse /\ response'.op \in {"list_runs", "list_steps", "get_run"}

\* what the last submission applied for a run_id has put into the Store
LastWritten(id) == model_dump(last_applied[id])

\* C29: a query (listRuns, listSteps, run detail) leaves the Store as it
\* found it, the set of records and each record's content, and its answer
\* shows the runs as their most recent insert or overwrite wrote them: the
\* detail is the last submission as a whole, a summary of listRuns and an
\* entry of listSteps are taken from the last submission of their run.
C29_QueriesReadOnly ==
    [][Queried =>
          /\ RUNS' = RUNS
          /\ run_keys' = run_keys
          /\ (response'.op = "get_run" /\ response'.status = 200) =>
                response'.run = LastWritten(response'.run_id)
          /\ (response'.op = "get_run" /\ response'.status = 404) =>
                response'.run_id \notin DOMAIN last_applied
          /\ (response'.op = "list_runs" /\ ~response'.result.error) =>
                \A i \in DOMAIN response'.result.runs :
                   LET e == response'.result.runs[i]
                       w == LastWritten(e.run_id)
                   IN  /\ e.pipeline = w.pipeline
                       /\ e.status = w.status
                       /\ e.started_at = w.started_at
                       /\ e.step_count = Len(w.steps)
          /\ response'.op = "list_steps" =>
                \A i \in DOMAIN response'.result.steps :
                   LET e == response'.result.steps[i]
                       w == LastWritten(e.run_id)
                   IN  /\ e.pipeline = w.pipeline
                       /\ \E k \in DOMAIN w.steps :
                             /\ e.step_name = w.steps[k].name
                             /\ e.step_type = w.steps[k].step_type
                             /\ e.rejection_rate = w.steps[k].rejection_rate]_vars

\* GET /runs has just answered from a Store of two runs, one of them
\* overwritten, and the answer shows the overwritten run as it was written
\* last: failed, with one step
C29_Witness ==
    /\ response.op = "list_runs"
    /\ ~response.result.error
    /\ \E i \in DOMAIN response.result.runs :
          /\ response.result.runs[i].run_id \in overwritten
          /\ response.result.runs[i].status = "failed"
          /\ response.result.runs[i].step_count = 1
    /\ Len(run_keys) = 2

\* the ordinal of a step's beginning within its run, which names its record
StartOrdinal(rec) == rec.name

\* C30 (as claimed): the run's step sequence only grows at its tail, by one
\* record at each step end, every earlier sequence being a prefix of every
\* later one, and it lists the steps in the order in which they were
\* executed, a step that began earlier before a step that began later, also
\* when steps are nested in one another or overlap; so does every delivered
\* record.
C30_StepsInOrder ==
    [][/\ Len(run_steps') \in {Len(run_steps), Len(run_steps) + 1}
       /\ \A i \in DOMAIN run_steps : StepRecord(i)' = StepRecord(i)
       /\ Len(seals') = Len(seals) + 1 => Len(run_steps') = Len(run_steps) + 1
       /\ \A i, j \in DOMAIN run_steps' :
             i < j => StartOrdinal(run_steps'[i]) < StartOrdinal(run_steps'[j])
       /\ JustSent =>
             \A i, j \in DOMAIN Sent.record.steps :
                i < j => StartOrdinal(Sent.record.steps[i])
                            < StartOrdinal(Sent.record.steps[j])]_vars

\* C31 (as claimed): listRuns is total: whatever records the Store has
\* ingested, among them two or more runs without started_at or runs with
\* and without it, every answer of GET /runs is a page with its total and
\* never an error.
C31_ListRunsTotal ==
    response.op = "list_runs" =>
        /\ ~response.result.error
        /\ {"runs", "total"} \subseteq DOMAIN response.result
        /\ response.result.total \in 0 .. Cardinality(DOMAIN RUNS)

\* the run identifiers of which a finalize was buffered after a failed send
BufferedRuns == {sends[i].record.run_id : i \in {k \in DOMAIN sends : sends[k].file # None}}

\* the finalized record produced at the end of run id: the one its last
\* finalize handed to Delivery
FinalRecord(id) ==
    LET of == {k \in DOMAIN sends : sends[k].record.run_id = id}
    IN  sends[CHOOSE k \in of : \A j \in of : j <= k].record

\* C32 (as claimed): when sync_offline has run with every resend answered by
\* the Store, then for every run whose delivery failed under the buffer
\* policy the Store holds the finalized record produced at the run's end and
\* the retry area holds no document of that run.
C32_TraceRecovered ==
    [][(sync_log'.calls = sync_log.calls + 1 /\ sync_log'.oks = DOMAIN offline_dir) =>
          \A id \in BufferedRuns :
             /\ \A f \in DOMAIN offline_dir' : f[1] # id
             /\ id \in DOMAIN RUNS'
             /\ RUNS'[id] = model_dump(FinalRecord(id))]_vars

=============================================================================
